---- MODULE Spec2Model ----
(***************************************************************************)
(* The photo gallery of src/index.tsx: the App component's state (the     *)
(* image slots and the layout mode), the store mutation                   *)
(* handleImageUpdate, the layout setter, ImageCard's file-input handler   *)
(* and the layout-dependent part of what App renders.                      *)
(*                                                                         *)
(* Every handler runs to completion on the UI thread, so each handler,    *)
(* together with the re-render React performs after it, is one action.    *)
(***************************************************************************)
EXTENDS Integers, Sequences, FiniteSets, TLC

\* ------------------------------------------------------------ constants

\* const INITIAL_IMAGE_COUNT = 16
INITIAL_IMAGE_COUNT == 16

\* Largest count tried for the slot-list construction in SpecCount.
MaxCount == 3

\* Number of distinct object URLs the browser may hand out in the model.
MaxBlob == 2

\* `src: string | null`: null is encoded as a string no reference equals.
NULL == "<null>"

\* The message of alert(...) on a rejected file (the source's text is Persian:
\* "please select an image file").
AlertMessage == "please select an image file"

\* ------------------------------------------------------------ inputs

\* Files a user may pick: a name and the declared MIME type (File.type is ""
\* when the platform cannot tell the type).
Files ==
    { [name |-> "a.png",  type |-> "image/png"],
      [name |-> "b.txt",  type |-> "text/plain"],
      [name |-> "c",      type |-> ""],
      [name |-> "d.img",  type |-> "application/image/raw"] }

\* event.target.files: a FileList of zero or one file.
FileLists == {<< >>} \cup { <<f>> : f \in Files }

\* What URL.createObjectURL may return.  The real value is a browser-chosen
\* "blob:<origin>/<uuid>"; the model lets the browser pick any of a small pool,
\* which over-approximates the choice (the same URL may even come back).
BlobUrls == { "blob:local-" \o ToString(n) : n \in 1..MaxBlob }

\* References passed to the store when it is called directly.
StoreRefs == { "blob:local-ref-A", "" }

\* Ids passed to the store when it is called directly, for a list of n slots:
\* below the range, inside it, and above it.
StoreIds(n) == { 0, 1, n, n + 1 }

\* The cards the user interacts with, for a list of n slots.
Cards(n) == { 1, 2, n } \cap (1..n)

Layouts == { "grid", "feed" }

\* ------------------------------------------------------------ pure code

\* Array.from({ length: count }, (_, i) => ({ id: i + 1, src: `...${i + 1}...` }))
initialImages_ZeroBased(count) ==
    [ j \in 1..count |->
        LET i == j - 1 IN
        [ id  |-> i,
          src |-> "https://picsum.photos/seed/" \o ToString(i) \o "/600/600" ] ]

initialImages_Empty(count) ==
    [ j \in 1..count |->
        LET i == j - 1 IN [ id |-> i + 1, src |-> NULL ] ]

initialImages(count) ==
    [ j \in 1..count |->
        LET i == j - 1 IN
        [ id  |-> i + 1,
          src |-> "https://picsum.photos/seed/" \o ToString(i + 1) \o "/600/600" ] ]

\* String.prototype.startsWith
startsWith(s, prefix) ==
    /\ Len(s) >= Len(prefix)
    /\ SubSeq(s, 1, Len(prefix)) = prefix

\* currentImages.map((img) => (img.id === id ? { ...img, src } : img))
handleImageUpdate_ByIndex(currentImages, id, src) ==
    [ j \in 1..Len(currentImages) |->
        IF j - 1 = id
          THEN [ currentImages[j] EXCEPT !.src = src ]
          ELSE currentImages[j] ]

handleImageUpdate_Upsert(currentImages, id, src) ==
    IF \E j \in 1..Len(currentImages) : currentImages[j].id = id
      THEN [ j \in 1..Len(currentImages) |->
               IF currentImages[j].id = id
                 THEN [ currentImages[j] EXCEPT !.src = src ]
                 ELSE currentImages[j] ]
      ELSE Append(currentImages, [ id |-> id, src |-> src ])

handleImageUpdate_MoveToFront(currentImages, id, src) ==
    SelectSeq([ j \in 1..Len(currentImages) |->
                  [ currentImages[j] EXCEPT !.src = src ] ],
              LAMBDA img : img.id = id)
    \o SelectSeq(currentImages, LAMBDA img : img.id # id)

handleImageUpdate(currentImages, id, src) ==
    [ j \in 1..Len(currentImages) |->
        IF currentImages[j].id = id
          THEN [ currentImages[j] EXCEPT !.src = src ]
          ELSE currentImages[j] ]

\* setLayout('grid') / setLayout('feed'): the useState setter, given a value.
setLayout_Toggle(current, mode) ==
    IF current = "grid" THEN "feed" ELSE "grid"

setLayout(current, mode) == mode

\* ImageCard.handleFileChange.  `image` is the card's prop, `files` the
\* event's FileList, `imageUrl` what URL.createObjectURL returns if called.
\* The result lists the onImageUpload calls made, the alerts shown and the
\* value the input is left with.
handleFileChange_AcceptAttr(image, files, imageUrl) ==
    LET hasFile == Len(files) > 0 IN
    [ uploads |-> IF hasFile
                    THEN << [ id |-> image.id, src |-> imageUrl ] >>
                    ELSE << >>,
      alerts  |-> << >>,
      value   |-> "" ]

handleFileChange_IndexId(image, files, imageUrl) ==
    LET hasFile == Len(files) > 0
        valid   == hasFile /\ startsWith(files[1].type, "image/") IN
    [ uploads |-> IF valid
                    THEN << [ id |-> image.id - 1, src |-> imageUrl ] >>
                    ELSE << >>,
      alerts  |-> IF hasFile /\ ~valid THEN << AlertMessage >> ELSE << >>,
      value   |-> "" ]

handleFileChange_NoReset(image, files, imageUrl) ==
    LET hasFile == Len(files) > 0
        valid   == hasFile /\ startsWith(files[1].type, "image/") IN
    [ uploads |-> IF valid
                    THEN << [ id |-> image.id, src |-> imageUrl ] >>
                    ELSE << >>,
      alerts  |-> IF hasFile /\ ~valid THEN << AlertMessage >> ELSE << >>,
      value   |-> IF hasFile THEN "C:\\fakepath\\" \o files[1].name ELSE "" ]

handleFileChange(image, files, imageUrl) ==
    LET hasFile == Len(files) > 0                                 \* if (file)
        valid   == hasFile /\ startsWith(files[1].type, "image/") IN
    [ uploads |-> IF valid
                    THEN << [ id |-> image.id, src |-> imageUrl ] >>
                    ELSE << >>,
      alerts  |-> IF hasFile /\ ~valid THEN << AlertMessage >> ELSE << >>,
      value   |-> "" ]                            \* event.target.value = ''

\* onImageUpload={handleImageUpdate}: each call the card made reaches the
\* store's updater, in order.
RECURSIVE onImageUpload(_, _)
onImageUpload(currentImages, uploads) ==
    IF uploads = << >>
      THEN currentImages
      ELSE onImageUpload(
             handleImageUpdate(currentImages, Head(uploads).id, Head(uploads).src),
             Tail(uploads))

\* const gridClasses = layout === 'grid' ? '...' : '...'
gridClasses(current) ==
    IF current = "grid"
      THEN "grid grid-cols-1 gap-4 sm:grid-cols-2 md:grid-cols-3 lg:grid-cols-4 xl:gap-6"
      ELSE "grid grid-cols-1 gap-8 max-w-2xl mx-auto"

baseButtonClasses ==
    "p-2 rounded-lg transition-colors duration-300 focus:outline-none focus:ring-2 focus:ring-offset-2 focus:ring-offset-gray-900 focus:ring-cyan-500"
activeButtonClasses == "bg-cyan-600 text-white"
inactiveButtonClasses == "bg-gray-700 text-gray-400 hover:bg-gray-600 hover:text-white"

\* className={`${baseButtonClasses} ${layout === which ? active : inactive}`}
buttonClassName_CopyPaste(current, which) ==
    baseButtonClasses \o " " \o
      (IF current = "grid" THEN activeButtonClasses ELSE inactiveButtonClasses)

buttonClassName(current, which) ==
    baseButtonClasses \o " " \o
      (IF current = which THEN activeButtonClasses ELSE inactiveButtonClasses)

\* {image.src ? <img .../> : <placeholder/>}: null and '' are falsy.
cardBranch(image) ==
    IF image.src # NULL /\ image.src # "" THEN "img" ELSE "placeholder"

\* What App renders, as far as it depends on the state.
App(imgs, current) ==
    [ gridClasses |-> gridClasses(current),
      gridButton  |-> buttonClassName(current, "grid"),
      feedButton  |-> buttonClassName(current, "feed"),
      cards       |-> [ j \in 1..Len(imgs) |->
                          [ key |-> imgs[j].id, branch |-> cardBranch(imgs[j]) ] ] ]

\* The file input's value for a FileList, as the browser reports it.
inputValueOf(files) ==
    IF Len(files) > 0 THEN "C:\\fakepath\\" \o files[1].name ELSE ""

\* The browser raises `change` on <input type="file" onChange=...> unless the
\* user picked again the file the input already holds.
changeFires(value, files) ==
    Len(files) = 0 \/ value # inputValueOf(files)

\* ------------------------------------------------------------ state

VARIABLES
    images,      \* useState<ImageState[]>(initialImages)
    layout,      \* useState<Layout>('grid')
    inputValue,  \* per card, the value of its <input type="file">
    view,        \* what App rendered after the last state change
    uploads,     \* the handleImageUpdate calls the last handler made
    alerts,      \* the alerts the last handler showed
    last         \* the last operation, its inputs and the state it started from

vars == << images, layout, inputValue, view, uploads, alerts, last >>

\* `last` is a history variable: it records the operation and the state it
\* started from, so that a property of an operation is a state predicate.
NoArgs ==
    [ count |-> 0, id |-> 0, ref |-> "", card |-> 0, files |-> << >>,
      url |-> "", mode |-> "" ]

\* Whether the operation (op, args) repeats the one before it.
Again(op, args) == last.op = op /\ last.args = args

Record(op, args) ==
    [ op       |-> op,
      args     |-> args,
      again    |-> Again(op, args),
      afterRejection |-> Len(alerts) > 0,
      images   |-> images,
      layout   |-> layout ]

\* The module's top level and App's first render, for a list of `count` slots.
InitWith(count) ==
    /\ images = initialImages(count)
    /\ layout = "grid"
    /\ inputValue = [ j \in 1..count |-> "" ]
    /\ view = App(images, layout)
    /\ uploads = << >>
    /\ alerts = << >>
    /\ last = [ op |-> "init", args |-> [ NoArgs EXCEPT !.count = count ],
                again |-> FALSE, afterRejection |-> FALSE,
                images |-> << >>, layout |-> "" ]

Init == InitWith(INITIAL_IMAGE_COUNT)

InitCount == \E count \in (1..MaxCount) \cup { INITIAL_IMAGE_COUNT } : InitWith(count)

\* ------------------------------------------------------------ actions

\* The store's mutation called with (id, ref): handleImageUpdate(id, src).
replaceSlotImage(id, ref) ==
    /\ images' = handleImageUpdate(images, id, ref)
    /\ UNCHANGED << layout, inputValue >>
    /\ uploads' = << [ id |-> id, src |-> ref ] >>
    /\ alerts' = << >>
    /\ view' = App(images', layout')
    /\ last' = Record("replaceSlotImage", [ NoArgs EXCEPT !.id = id, !.ref = ref ])

\* A click on one of the two layout buttons: onClick={() => setLayout(mode)}.
LayoutButtonClick(mode) ==
    /\ layout' = setLayout(layout, mode)
    /\ UNCHANGED << images, inputValue >>
    /\ uploads' = << >>
    /\ alerts' = << >>
    /\ view' = App(images', layout')
    /\ last' = Record("setLayout", [ NoArgs EXCEPT !.mode = mode ])

\* The `change` event of the file input of the card at position `card`
\* ({images.map((image) => <ImageCard image={image} .../>)}), with the
\* FileList `files`; `url` is what URL.createObjectURL returns if called
\* (recorded in `last` only when the handler did derive a reference).
FileChange(card, files, url) ==
    /\ changeFires(inputValue[card], files)
    /\ LET r == handleFileChange(images[card], files, url) IN
         /\ images' = onImageUpload(images, r.uploads)
         /\ uploads' = r.uploads
         /\ alerts' = r.alerts
         /\ inputValue' = [ inputValue EXCEPT ![card] = r.value ]
    /\ UNCHANGED layout
    /\ view' = App(images', layout')
    /\ last' = Record("change",
                      [ NoArgs EXCEPT !.card = card, !.files = files,
                                      !.url = IF uploads' # << >> THEN url ELSE "" ])

StoreStep == \E id \in StoreIds(Len(images)), ref \in StoreRefs : replaceSlotImage(id, ref)

LayoutStep == \E mode \in Layouts : LayoutButtonClick(mode)

FileStep ==
    \E card \in Cards(Len(images)), files \in FileLists, url \in BlobUrls :
        FileChange(card, files, url)

\* The store driven directly and through the user interface.
Next == StoreStep \/ LayoutStep \/ FileStep

Spec == Init /\ [][Next]_vars

\* The user interface alone: clicks on the layout buttons and file selections.
NextUI == LayoutStep \/ FileStep

SpecUI == Init /\ [][NextUI]_vars

\* The user interface over a slot list of every count in 1..MaxCount (and 16).
SpecCount == InitCount /\ [][NextUI]_vars

\* ------------------------------------------------------------ properties

\* The declared MIME type begins with "image/".
DeclaresImage(type) == Len(type) >= 6 /\ SubSeq(type, 1, 6) = "image/"

\* The placeholder reference of a slot id.
PlaceholderOf(id) == "https://picsum.photos/seed/" \o ToString(id) \o "/600/600"

\* The last operation was a file selection that carried a file.
SelectedFile == last.op = "change" /\ Len(last.args.files) > 0

\* The slot list holds a slot with this id.
IdExists(imgs, id) == \E j \in 1..Len(imgs) : imgs[j].id = id

\* A button's className carries the active class.
IsActive(className) == className = baseButtonClasses \o " " \o activeButtonClasses

\* C1: replaceSlotImage(id, ref) for an id that exists sets that slot's src to
\* ref and changes nothing else: every slot keeps its id, every other slot its
\* src, the list its length and order, the layout its mode.  From the initial
\* state, replaceSlotImage(1, "blob:local-ref-A") leaves slot 1 with that
\* reference and slot 2 with its placeholder.
C1_ReplaceChangesOnlyThatSlot ==
    (last.op = "replaceSlotImage" /\ IdExists(last.images, last.args.id)) =>
        /\ Len(images) = Len(last.images)
        /\ \A j \in 1..Len(last.images) :
             /\ images[j].id = last.images[j].id
             /\ DOMAIN images[j] = { "id", "src" }
             /\ images[j].src =
                  IF last.images[j].id = last.args.id
                    THEN last.args.ref
                    ELSE last.images[j].src
        /\ \E j \in 1..Len(images) :
             images[j].id = last.args.id /\ images[j].src = last.args.ref
        /\ layout = last.layout
        /\ (/\ last.images = [ j \in 1..INITIAL_IMAGE_COUNT |->
                                 [ id |-> j, src |-> PlaceholderOf(j) ] ]
            /\ last.args.id = 1
            /\ last.args.ref = "blob:local-ref-A")
           => /\ images[1].src = "blob:local-ref-A"
              /\ images[2].src = "https://picsum.photos/seed/2/600/600"

C1_Witness ==
    /\ last.op = "replaceSlotImage"
    /\ last.args.id = 1
    /\ last.args.ref = "blob:local-ref-A"
    /\ last.images[1].src = PlaceholderOf(1)
    /\ images[1].src = "blob:local-ref-A"
    /\ images[2].src = PlaceholderOf(2)

\* C2: replaceSlotImage(id, ref) for an id below 1 or above the slot count is
\* a no-op: slots, their order and count, and the layout are as before.
C2_ReplaceUnknownIdIsNoOp ==
    (/\ last.op = "replaceSlotImage"
     /\ (last.args.id < 1 \/ last.args.id > Len(last.images))) =>
        /\ images = last.images
        /\ layout = last.layout
        /\ view = App(last.images, last.layout)

C2_Witness ==
    /\ last.op = "replaceSlotImage"
    /\ last.args.id = INITIAL_IMAGE_COUNT + 1
    /\ last.args.ref = "blob:local-ref-A"
    /\ images = last.images
    /\ images[1].src # PlaceholderOf(1)

\* C3: in every reachable state the slot list holds exactly one slot per id in
\* 1..16, in ascending id order, and has length 16.
C3_OneSlotPerId ==
    /\ Len(images) = INITIAL_IMAGE_COUNT
    /\ \A j \in 1..Len(images) : images[j].id = j
    /\ \A id \in 1..INITIAL_IMAGE_COUNT :
         Cardinality({ j \in 1..Len(images) : images[j].id = id }) = 1

C3_Witness ==
    /\ last.op = "replaceSlotImage"
    /\ last.args.id = INITIAL_IMAGE_COUNT + 1
    /\ layout = "feed"
    /\ images[INITIAL_IMAGE_COUNT].src \in BlobUrls
    /\ images[1].src = "blob:local-ref-A"
    /\ Len(images) = INITIAL_IMAGE_COUNT

\* C4: selecting a file whose declared type does not begin with "image/"
\* (the empty type included) changes no slot, calls the store's callback not at
\* all, leaves the layout alone and shows exactly one alert; a valid selection
\* that follows a rejected one is handled as usual.
C4_NonImageRejectedWithOneAlert ==
    /\ (SelectedFile /\ ~DeclaresImage(last.args.files[1].type)) =>
        /\ images = last.images
        /\ uploads = << >>
        /\ layout = last.layout
        /\ Len(alerts) = 1
    /\ (SelectedFile /\ last.afterRejection
          /\ DeclaresImage(last.args.files[1].type)) =>
        /\ Len(uploads) = 1
        /\ alerts = << >>
        /\ images[last.args.card].src = uploads[1].src

C4_Witness ==
    /\ SelectedFile
    /\ last.args.files[1].type = ""
    /\ Len(alerts) = 1
    /\ uploads = << >>
    /\ images = last.images
    /\ images[2].src \in BlobUrls

\* C5: selecting a file whose declared type begins with "image/" in the card
\* of slot k derives one reference and calls the store's callback once, with
\* k and that reference, and shows no alert; afterwards slot k's src is the
\* reference and no other slot has changed.
C5_ImageUploadedToOwnSlot ==
    (SelectedFile /\ DeclaresImage(last.args.files[1].type)) =>
        /\ last.args.url \in BlobUrls
        /\ uploads = << [ id |-> last.args.card, src |-> last.args.url ] >>
        /\ alerts = << >>
        /\ Len(images) = Len(last.images)
        /\ images[last.args.card].id = last.args.card
        /\ images[last.args.card].src = last.args.url
        /\ \A j \in 1..Len(images) :
             j # last.args.card => images[j] = last.images[j]

C5_Witness ==
    /\ SelectedFile
    /\ last.args.card = 2
    /\ last.args.files[1].type = "image/png"
    /\ images[2].src = last.args.url
    /\ last.images[1].src \in BlobUrls
    /\ images[1] = last.images[1]
    /\ Len(uploads) = 1

\* C6: the initial state for `count` slots has exactly count slots with ids
\* 1..count in ascending order, each once, each with a non-empty placeholder
\* that is a function of its id and differs from every other slot's; the
\* initial layout is grid.
C6_InitializeYieldsCountSlots ==
    (last.op = "init") =>
        /\ last.args.count > 0
        /\ Len(images) = last.args.count
        /\ \A j \in 1..Len(images) : images[j].id = j
        /\ { images[j].id : j \in 1..Len(images) } = 1..last.args.count
        /\ \A j \in 1..Len(images) :
             /\ images[j].src # ""
             /\ images[j].src # NULL
             /\ images[j].src = PlaceholderOf(images[j].id)
        /\ \A j, k \in 1..Len(images) :
             j # k => images[j].src # images[k].src
        /\ layout = "grid"

C6_Witness ==
    /\ last.op = "init"
    /\ last.args.count = 3
    /\ Len(images) = 3
    /\ images[3] = [ id |-> 3, src |-> "https://picsum.photos/seed/3/600/600" ]

\* C7: setLayout(mode) sets the layout to mode whatever it was, touches no
\* slot, and applied a second time in a row changes nothing; the layout is
\* always grid or feed.
C7_SetLayoutIdempotent ==
    /\ layout \in { "grid", "feed" }
    /\ (last.op = "setLayout") =>
        /\ layout = last.args.mode
        /\ images = last.images
    /\ (last.op = "setLayout" /\ last.again) =>
        /\ layout = last.layout
        /\ images = last.images
        /\ view = App(last.images, last.layout)

C7_Witness ==
    /\ last.op = "setLayout"
    /\ last.again
    /\ last.args.mode = "feed"
    /\ layout = "feed"
    /\ images[1].src \in BlobUrls

\* C8: the container's classes and the two buttons' classes depend on the
\* layout mode alone: in grid they are what the first render showed, also
\* after feed and back and after slot replacements; in every state exactly one
\* button carries the active class, the one of the current mode.
C8_ClassesFollowLayout ==
    /\ (layout = "grid") =>
        /\ view.gridClasses =
             "grid grid-cols-1 gap-4 sm:grid-cols-2 md:grid-cols-3 lg:grid-cols-4 xl:gap-6"
        /\ IsActive(view.gridButton)
        /\ ~IsActive(view.feedButton)
    /\ (layout = "feed") =>
        /\ view.gridClasses = "grid grid-cols-1 gap-8 max-w-2xl mx-auto"
        /\ ~IsActive(view.gridButton)
        /\ IsActive(view.feedButton)
    /\ \/ (IsActive(view.gridButton) /\ ~IsActive(view.feedButton))
       \/ (~IsActive(view.gridButton) /\ IsActive(view.feedButton))
    /\ \A b \in { view.gridButton, view.feedButton } :
         \/ IsActive(b)
         \/ b = baseButtonClasses \o " " \o inactiveButtonClasses

C8_Witness ==
    /\ last.op = "setLayout"
    /\ last.args.mode = "grid"
    /\ last.layout = "feed"
    /\ images[1].src \in BlobUrls
    /\ view.gridClasses =
         "grid grid-cols-1 gap-4 sm:grid-cols-2 md:grid-cols-3 lg:grid-cols-4 xl:gap-6"
    /\ IsActive(view.gridButton)

\* C9: after any file-selection event (a valid image, a rejected file, no
\* file) the input's value is empty, so the browser raises `change` again for
\* any file picked next, and a selection that repeats the one just handled on
\* the same card is handled again: a valid one by another call of the store's
\* callback, an invalid one by another alert.
C9_InputResetAfterHandling ==
    /\ \A j \in DOMAIN inputValue : inputValue[j] = ""
    /\ \A j \in DOMAIN inputValue, files \in FileLists :
         changeFires(inputValue[j], files)
    /\ (SelectedFile /\ last.again) =>
         IF DeclaresImage(last.args.files[1].type)
           THEN Len(uploads) = 1 /\ alerts = << >>
           ELSE Len(alerts) = 1 /\ uploads = << >>

C9_Witness ==
    /\ SelectedFile
    /\ last.again
    /\ last.args.files[1].type = "image/png"
    /\ Len(uploads) = 1
    /\ inputValue[last.args.card] = ""

\* C10: through the user interface every slot's src stays present and
\* non-empty, and every card renders its image branch, never the placeholder
\* branch.
C10_SrcAlwaysPresent ==
    \A j \in 1..Len(images) :
        /\ images[j].src # NULL
        /\ images[j].src # ""
        /\ view.cards[j].branch = "img"
        /\ view.cards[j].key = images[j].id

C10_Witness ==
    /\ SelectedFile
    /\ Len(alerts) = 1
    /\ layout = "feed"
    /\ images[1].src \in BlobUrls
    /\ images[INITIAL_IMAGE_COUNT].src \in BlobUrls
    /\ view.cards[1].branch = "img"

====
